---- MODULE Spec2Model ----
(***************************************************************************)
(* A model of polyid-auth: the NoSQL storage adapter                       *)
(* (internal/storage/nosql.go: temporary values and users), the WebAuthn   *)
(* HTTP handlers, the MFA HTTP handlers and the gRPC AuthService           *)
(* (internal/auth/grpc.go).                                                *)
(*                                                                         *)
(* Each component has its own specification over its own variables; the    *)
(* variables of the other components keep their initial values.            *)
(***************************************************************************)
EXTENDS Integers, Sequences, FiniteSets, TLC

VARIABLES
    \* ---- NoSQLStorage over its NoSQLClient ----
    table,        \* the client's table: key -> stored document or NoDoc
    now,          \* time.Now(), in clock ticks
    nilOnMiss,    \* the client's Get on an absent key: TRUE (nil, nil), FALSE (nil, err)
    sret,         \* what the last storage call returned, and when
    lastStore,    \* per temporary key: the value last stored, while its ttl has not elapsed
    ucall,        \* per worker: the CreateUser call between its Get and its Put, or Idle
    uret,         \* per worker: what its last CreateUser returned
    \* ---- WebAuthn handlers ----
    sessionStore, \* what storeSessionData has persisted: handle -> session or NoSession
    credStore,    \* what storeCredential has persisted
    wcall,        \* per worker: the request being handled, or Idle
    wresp,        \* per worker: the last HTTP response it wrote
    regDone,      \* per handle: the response body FinishRegistration first answered 200 to
    regOrder,     \* the handles BeginRegistration answered 200 on, the latest last
    regFailed,    \* the begun handles on which FinishRegistration failed verification
    \* ---- MFA handlers and the MFA RPCs of AuthService ----
    tempSecret,   \* what storeTemporarySecret has persisted: user -> secret or ""
    mfaMethods,   \* the persisted (verified) MFA methods
    smsStore,     \* what storeSMSVerificationCode has persisted: user -> code or ""
    issued,       \* the secret and the SMS code last sent to the client
    wrongRun,     \* consecutive wrong SMS codes since the last SendSMS
    mresp,        \* the last HTTP response of the MFA handlers
    mcall,        \* per worker: the VerifyMFAMethod request in flight, or Idle
    mrpc,         \* per worker: the last VerifyMFAMethod response
    \* ---- AuthService: Authenticate / ValidateToken ----
    revoked,      \* session ids whose Revoke has completed
    aresp,        \* the last response of Authenticate / ValidateToken / Revoke
    \* ---- AuthService: the passkey RPCs and the MFA method RPCs ----
    rresp,        \* the last response of these RPCs
    prevGet,      \* the last GetMFAMethods response with no write since, or NoResp
    challengeIssued, \* per user: the challenge RegisterPasskey last returned, or ""
    consumed,     \* per user: the challenges RegisterPasskey issued in the current window
    \* ---- RedisCache ----
    cache,        \* the Redis keyspace: key -> entry or NoEntry
    cret,         \* what the last cache call returned
    \* ---- the event consumer ----
    claim,        \* the messages of the claim's partition, by offset
    position,     \* how many of them ConsumeClaim has taken from claim.Messages()
    marked,       \* the group's next offset, as MarkMessage has left it
    outcome,      \* per consumed message, in order: what the loop did with it
    \* ---- KafkaConsumer.Start ----
    startPc,      \* where Start is: idle, consuming (inside Consume) or returned
    ctxErr,       \* ctx.Err()
    startRet,     \* the error Start returned
    entered       \* how many times Start has called Consume

storageVars == <<table, now, nilOnMiss, sret, lastStore>>
webauthnVars == <<sessionStore, credStore, wcall, wresp, regDone, regOrder, regFailed>>
mfaVars == <<tempSecret, mfaMethods, smsStore, issued, wrongRun, mresp, mcall, mrpc>>
authVars == <<revoked, aresp>>
rpcVars == <<rresp, prevGet, challengeIssued, consumed>>
userVars == <<ucall, uret>>
cacheVars == <<cache, cret>>
consumerVars == <<claim, position, marked, outcome>>
startVars == <<startPc, ctxErr, startRet, entered>>
vars == <<storageVars, userVars, webauthnVars, mfaVars, authVars, rpcVars, cacheVars, consumerVars, startVars>>

\* what a step of one component leaves alone
notStorage == <<userVars, webauthnVars, mfaVars, authVars, rpcVars, cacheVars, consumerVars, startVars>>
notWebAuthn == <<storageVars, userVars, mfaVars, authVars, rpcVars, cacheVars, consumerVars, startVars>>
notMfa == <<storageVars, userVars, webauthnVars, authVars, rpcVars, cacheVars, consumerVars, startVars>>
notAuth == <<storageVars, userVars, webauthnVars, mfaVars, rpcVars, cacheVars, consumerVars, startVars>>
notRpc == <<storageVars, userVars, webauthnVars, mfaVars, authVars, cacheVars, consumerVars, startVars>>
notUsers == <<now, nilOnMiss, sret, lastStore, webauthnVars, mfaVars, authVars, rpcVars, cacheVars, consumerVars, startVars>>
notCache == <<storageVars, userVars, webauthnVars, mfaVars, authVars, rpcVars, consumerVars, startVars>>
notConsumer == <<storageVars, userVars, webauthnVars, mfaVars, authVars, rpcVars, cacheVars, startVars>>
notStart == <<storageVars, userVars, webauthnVars, mfaVars, authVars, rpcVars, cacheVars, consumerVars>>

(***************************************************************************)
(* Bounds of the model.                                                    *)
(***************************************************************************)
TicksPerSecond == 2      \* clock ticks per second (time.Now() is finer than a second)
MaxTime == 6             \* the clock stops after this many ticks
MaxTTL == 3              \* the longest expiry handed to StoreTemporaryValue, in ticks

Idle == [op |-> "idle"]

(***************************************************************************)
(* Error codes of the storage package.                                     *)
(***************************************************************************)
ErrNotFound == "NOT_FOUND"
ErrAlreadyExists == "ALREADY_EXISTS"
ErrInvalidInput == "INVALID_INPUT"
ErrInternal == "INTERNAL_ERROR"
OK == "OK"

(***************************************************************************)
(* NoSQLStorage: temporary values.                                         *)
(***************************************************************************)
TempNames == {"k1", "k2"}
TempValues == {"v1", "v2"}
TTLs == 0..MaxTTL

NoDoc == [kind |-> "none"]
\* the key has no stored value whose ttl is still running
NoStore == [value |-> "", until |-> 0]

\* fmt.Sprintf("temp:%s", key)
TempKey(key) == "temp:" \o key

UserIDs == {"u1", "u2"}
UserEmails == {"a@example.com", "b@example.com"}
\* the users handed to CreateUser
Users == [ID : UserIDs, Email : UserEmails]

CredentialIDs == {"cred1"}
\* the credentials handed to StoreCredential
Credentials == [ID : CredentialIDs, UserID : UserIDs]

TableKeys == {TempKey(k) : k \in TempNames} \cup UserIDs \cup CredentialIDs

\* time.Time.Unix(): whole seconds, the fraction dropped
Unix(t) == t \div TicksPerSecond

\* the document StoreTemporaryValue builds
TempDoc(value, expiry) ==
    [kind |-> "temp", value |-> value, expires_at |-> Unix(now + expiry)]

\* NoSQLClient.Put / Delete on the table
ClientPut(key, doc) == [table EXCEPT ![key] = doc]
ClientDelete(key) == [table EXCEPT ![key] = NoDoc]

\* the expiry test as it would be with >= for >: a value is taken as expired
\* from the start of the second of its expires_at
Expired_AtSecond(doc) == Unix(now) >= doc.expires_at

\* the expiry test of GetTemporaryValue
Expired(doc) == Unix(now) > doc.expires_at

StorageRet(op, key, code, value, exp) ==
    [op |-> op, key |-> key, code |-> code, value |-> value, exp |-> exp, at |-> now]

StoreTemporaryValue(key, value, expiry, putOK) ==
    /\ IF putOK
         THEN /\ table' = ClientPut(TempKey(key), TempDoc(value, expiry))
              /\ sret' = StorageRet("StoreTemporaryValue", key, OK, value, Unix(now + expiry))
              /\ lastStore' = [lastStore EXCEPT ![key] =
                    IF expiry > 0 THEN [value |-> value, until |-> now + expiry]
                    ELSE NoStore]
         ELSE /\ table' = table
              /\ sret' = StorageRet("StoreTemporaryValue", key, ErrInternal, "", 0)
              /\ lastStore' = lastStore
    /\ UNCHANGED <<now, nilOnMiss, notStorage>>

GetTemporaryValue(key, getOK, delOK) ==
    LET doc == table[TempKey(key)]
        ret(code, value, exp) == StorageRet("GetTemporaryValue", key, code, value, exp)
    IN  /\ IF ~getOK \/ (doc = NoDoc /\ ~nilOnMiss)
             THEN /\ sret' = ret(ErrInternal, "", 0)
                  /\ table' = table
             ELSE IF doc = NoDoc
             THEN /\ sret' = ret(ErrNotFound, "", 0)
                  /\ table' = table
             ELSE IF doc.kind # "temp"
             THEN /\ sret' = ret(ErrInternal, "", 0)
                  /\ table' = table
             ELSE IF Expired(doc)
             THEN /\ sret' = ret(ErrNotFound, "", doc.expires_at)
                  /\ table' = IF delOK THEN ClientDelete(TempKey(key)) ELSE table
             ELSE /\ sret' = ret(OK, doc.value, doc.expires_at)
                  /\ table' = table
        /\ UNCHANGED <<now, nilOnMiss, lastStore, notStorage>>

\* the passage of time
Tick ==
    /\ now < MaxTime
    /\ now' = now + 1
    /\ lastStore' = [k \in TempNames |->
          IF lastStore[k].until <= now + 1 THEN NoStore ELSE lastStore[k]]
    /\ UNCHANGED <<table, nilOnMiss, sret, notStorage>>

StorageInit ==
    /\ table = [k \in TableKeys |-> NoDoc]
    /\ now = 0
    /\ nilOnMiss \in BOOLEAN
    /\ sret = StorageRet("none", "", OK, "", 0)
    /\ lastStore = [k \in TempNames |-> NoStore]

StorageNext ==
    \/ \E k \in TempNames, v \in TempValues, e \in TTLs, io \in BOOLEAN :
          StoreTemporaryValue(k, v, e, io)
    \/ \E k \in TempNames, g \in BOOLEAN, d \in BOOLEAN : GetTemporaryValue(k, g, d)
    \/ Tick



(***************************************************************************)
(* NoSQLStorage: users.  CreateUser is a Get followed by a Put; the two    *)
(* are separate steps, so that two calls can be in flight at once.         *)
(***************************************************************************)
StorageWorkers == {"w1", "w2"}
NoRet == [op |-> "none"]

\* the document Put stores for a user
UserDoc(user) == [kind |-> "user", id |-> user.ID, email |-> user.Email]

\* err != nil of client.Get: an I/O failure, or a client that reports an
\* absent key as an error
ClientGetFails(key, getOK) == ~getOK \/ (table[key] = NoDoc /\ ~nilOnMiss)

\* what CreateUser returns: before is the document under user.ID when the
\* call arrived
UserRet(call, code) ==
    [op |-> "CreateUser", user |-> call.user, code |-> code, before |-> call.before,
     raced |-> call.raced]

\* the existence check of CreateUser
CreateUser_Get(w, user, getOK) ==
    /\ ucall[w] = Idle
    /\ LET racing == {v \in StorageWorkers \ {w} : ucall[v] # Idle}
           call(raced) == [op |-> "CreateUser", user |-> user, before |-> table[user.ID],
                           raced |-> raced]
       IN  IF ~ClientGetFails(user.ID, getOK)
             THEN /\ uret' = [uret EXCEPT ![w] = UserRet(call(FALSE), ErrAlreadyExists)]
                  /\ ucall' = ucall
             ELSE /\ uret' = [uret EXCEPT ![w] = NoRet]
                  /\ ucall' = [v \in StorageWorkers |->
                        IF v = w THEN call(racing # {})
                        ELSE IF v \in racing THEN [ucall[v] EXCEPT !.raced = TRUE]
                        ELSE ucall[v]]
    /\ UNCHANGED <<table, notUsers>>

\* the Put of CreateUser and its return
CreateUser(w, putOK) ==
    /\ ucall[w] # Idle
    /\ IF putOK
         THEN /\ table' = ClientPut(ucall[w].user.ID, UserDoc(ucall[w].user))
              /\ uret' = [uret EXCEPT ![w] = UserRet(ucall[w], OK)]
         ELSE /\ table' = table
              /\ uret' = [uret EXCEPT ![w] = UserRet(ucall[w], ErrInternal)]
    /\ ucall' = [ucall EXCEPT ![w] = Idle]
    /\ UNCHANGED notUsers

\* the life of one temporary value
TempValueNext ==
    \/ \E v \in TempValues, e \in TTLs, io \in BOOLEAN : StoreTemporaryValue("k1", v, e, io)
    \/ \E g \in BOOLEAN, d \in BOOLEAN : GetTemporaryValue("k1", g, d)
    \/ Tick

UsersInit ==
    /\ ucall = [w \in StorageWorkers |-> Idle]
    /\ uret = [w \in StorageWorkers |-> NoRet]

UsersNext ==
    \/ \E w \in StorageWorkers, u \in Users, g \in BOOLEAN : CreateUser_Get(w, u, g)
    \/ \E w \in StorageWorkers, p \in BOOLEAN : CreateUser(w, p)

\* the document Put stores for a credential
CredentialDoc(credential) ==
    [kind |-> "credential", id |-> credential.ID, user_id |-> credential.UserID]

StoreCredential(credential, putOK) ==
    /\ IF putOK
         THEN /\ table' = ClientPut(credential.ID, CredentialDoc(credential))
              /\ sret' = StorageRet("StoreCredential", credential.ID, OK, credential.UserID, 0)
         ELSE /\ table' = table
              /\ sret' = StorageRet("StoreCredential", credential.ID, ErrInternal,
                                    credential.UserID, 0)
    /\ UNCHANGED <<now, nilOnMiss, lastStore, notStorage>>

\* how a client.Get can fail: the caller's deadline passes, or an I/O error
GetFaults == {"none", "timeout", "io"}

\* the code GetUser returns for id
GetUserCode(id, fault, mapOK) ==
    IF ClientGetFails(id, fault = "none") THEN ErrInternal
    ELSE IF table[id] = NoDoc THEN ErrNotFound
    ELSE IF ~mapOK THEN ErrInternal
    ELSE OK

GetUser(id, fault, mapOK) ==
    /\ LET code == GetUserCode(id, fault, mapOK)
       IN  sret' = [op |-> "GetUser", key |-> id, code |-> code,
                    value |-> IF code = OK THEN table[id] ELSE NoDoc,
                    fault |-> fault, at |-> now]
    /\ UNCHANGED <<table, now, nilOnMiss, lastStore, notStorage>>

\* users and credentials, one caller at a time
UserDataNext ==
    \/ \E u \in Users, g \in BOOLEAN : CreateUser_Get("w1", u, g)
    \/ \E p \in BOOLEAN : CreateUser("w1", p)
    \/ \E c \in Credentials, p \in BOOLEAN : StoreCredential(c, p)
    \/ \E id \in UserIDs, f \in GetFaults, m \in BOOLEAN : GetUser(id, f, m)

(***************************************************************************)
(* WebAuthn handlers.  Requests are handled by independent workers; a      *)
(* Finish handler is two steps, so that two calls can be in flight at once.*)
(***************************************************************************)
Workers == {"w1", "w2"}
Handles == {"h1", "h2"}
\* a client's credential response; accept is the verdict of the go-webauthn
\* library (err == nil) on it
Bodies == [id : {"r1"}, accept : BOOLEAN]

NoSession == [challenge |-> ""]
NoUser == ""
NoResp == [op |-> "none"]
NoBody == [id |-> "", accept |-> FALSE]

\* getUserFromContext: returns nil
getUserFromContext(handle) == NoUser

\* storeSessionData: stores nothing
storeSessionData(handle, session) == sessionStore

\* getSessionData: returns nil
getSessionData(handle) == NoSession

\* storeCredential: stores nothing, returns nil
storeCredential(user, credential) == [err |-> FALSE, store |-> credStore]

\* verifyCredential: returns nil
verifyCredential(user, credential) == [err |-> FALSE]

\* generateSessionToken: returns "", nil
generateSessionToken(user) == [err |-> FALSE, token |-> ""]

\* h.webauthn.FinishRegistration / FinishLogin: err == nil
LibraryAccepts(user, session, body) == body.accept

\* c.JSON(status, ...): payload is the challenge of the options or the token
HttpResp(op, call, status, payload) ==
    [op |-> op, handle |-> call.handle, body |-> call.body, status |-> status,
     payload |-> payload, replay |-> call.replay, raced |-> call.raced]

\* the ceremonies begun so far, with a new one on handle as the latest
BegunWith(order, handle) ==
    LET kept == IF Len(order) = 0 THEN <<>>
                ELSE IF Len(order) = 1
                  THEN (IF order[1] = handle THEN <<>> ELSE order)
                ELSE IF order[1] = handle THEN <<order[2]>>
                ELSE IF order[2] = handle THEN <<order[1]>>
                ELSE order
    IN  Append(kept, handle)

\* a ceremony was begun on handle
Begun(order, handle) == \E i \in 1..Len(order) : order[i] = handle

\* handle was begun, and another handle was begun after it
Superseded(order, handle) ==
    /\ Begun(order, handle)
    /\ order[Len(order)] # handle

\* BeginRegistration and BeginLogin have the same shape: the library builds
\* the options and the session, the session goes to storeSessionData
BeginCeremony(op, w, handle, libOK, challenge) ==
    /\ wcall[w] = Idle
    /\ LET user == getUserFromContext(handle)
           call == [handle |-> handle, body |-> NoBody, replay |-> FALSE, raced |-> FALSE]
           newReg == libOK /\ op = "BeginRegistration"
       IN  /\ IF ~libOK
                THEN /\ wresp' = [wresp EXCEPT ![w] = HttpResp(op, call, 500, "")]
                     /\ sessionStore' = sessionStore
                ELSE /\ sessionStore' = storeSessionData(handle, [challenge |-> challenge])
                     /\ wresp' = [wresp EXCEPT ![w] = HttpResp(op, call, 200, challenge)]
           /\ regOrder' = IF newReg THEN BegunWith(regOrder, handle) ELSE regOrder
           /\ regFailed' = IF newReg THEN regFailed \ {handle} ELSE regFailed
    /\ UNCHANGED <<credStore, wcall, regDone, notWebAuthn>>

BeginRegistration(w, handle, libOK, challenge) ==
    BeginCeremony("BeginRegistration", w, handle, libOK, challenge)

BeginLogin(w, handle, libOK, challenge) ==
    BeginCeremony("BeginLogin", w, handle, libOK, challenge)

\* the first two lines of a Finish handler: the user and the session are read
FinishLoad(op, w, handle, body) ==
    /\ wcall[w] = Idle
    /\ LET racing == {v \in Workers \ {w} : wcall[v] # Idle /\ wcall[v].op = op
                                            /\ wcall[v].handle = handle}
       IN  wcall' = [v \in Workers |->
                IF v = w
                  THEN [op |-> op, handle |-> handle, body |-> body,
                        user |-> getUserFromContext(handle),
                        session |-> getSessionData(handle),
                        replay |-> regDone[handle] = body,
                        stale |-> op = "FinishRegistration" /\ Superseded(regOrder, handle),
                        afterFail |-> op = "FinishRegistration" /\ handle \in regFailed,
                        raced |-> racing # {}]
                ELSE IF v \in racing THEN [wcall[v] EXCEPT !.raced = TRUE]
                ELSE wcall[v]]
    /\ wresp' = [wresp EXCEPT ![w] = NoResp]
    /\ UNCHANGED <<sessionStore, credStore, regDone, regOrder, regFailed, notWebAuthn>>

FinishRegistration_Load(w, handle, body) ==
    FinishLoad("FinishRegistration", w, handle, body)

FinishRegistration(w) ==
    /\ wcall[w] # Idle
    /\ wcall[w].op = "FinishRegistration"
    /\ LET call == wcall[w]
           stored == storeCredential(call.user, call.body)
       IN  IF ~LibraryAccepts(call.user, call.session, call.body)
             THEN /\ wresp' = [wresp EXCEPT ![w] = HttpResp(call.op, call, 400, "")]
                  /\ regFailed' = IF Begun(regOrder, call.handle)
                                     THEN regFailed \cup {call.handle}
                                     ELSE regFailed
                  /\ UNCHANGED <<credStore, regDone>>
             ELSE IF stored.err
             THEN /\ wresp' = [wresp EXCEPT ![w] = HttpResp(call.op, call, 500, "")]
                  /\ UNCHANGED <<credStore, regDone, regFailed>>
             ELSE /\ credStore' = stored.store
                  /\ regFailed' = regFailed
                  /\ wresp' = [wresp EXCEPT ![w] = HttpResp(call.op, call, 200, "")]
                  /\ regDone' = IF regDone[call.handle] = NoBody
                                   THEN [regDone EXCEPT ![call.handle] = call.body]
                                   ELSE regDone
    /\ wcall' = [wcall EXCEPT ![w] = Idle]
    /\ UNCHANGED <<sessionStore, regOrder, notWebAuthn>>

FinishLogin_Load(w, handle, body) ==
    FinishLoad("FinishLogin", w, handle, body)

\* FinishLogin as it would be without the return that follows the 400 of a
\* rejected assertion: the handler runs on to the token and answers 200
FinishLogin_RunningOn(w) ==
    /\ wcall[w] # Idle
    /\ wcall[w].op = "FinishLogin"
    /\ LET call == wcall[w]
           token == generateSessionToken(call.user)
       IN  wresp' = [wresp EXCEPT ![w] =
               IF verifyCredential(call.user, call.body).err
                 THEN HttpResp(call.op, call, 401, "")
               ELSE IF token.err
                 THEN HttpResp(call.op, call, 500, "")
               ELSE HttpResp(call.op, call, 200, token.token)]
    /\ wcall' = [wcall EXCEPT ![w] = Idle]
    /\ UNCHANGED <<sessionStore, credStore, regDone, regOrder, regFailed, notWebAuthn>>

FinishLogin(w) ==
    /\ wcall[w] # Idle
    /\ wcall[w].op = "FinishLogin"
    /\ LET call == wcall[w]
           token == generateSessionToken(call.user)
       IN  wresp' = [wresp EXCEPT ![w] =
               IF ~LibraryAccepts(call.user, call.session, call.body)
                 THEN HttpResp(call.op, call, 400, "")
               ELSE IF verifyCredential(call.user, call.body).err
                 THEN HttpResp(call.op, call, 401, "")
               ELSE IF token.err
                 THEN HttpResp(call.op, call, 500, "")
               ELSE HttpResp(call.op, call, 200, token.token)]
    /\ wcall' = [wcall EXCEPT ![w] = Idle]
    /\ UNCHANGED <<sessionStore, credStore, regDone, regOrder, regFailed, notWebAuthn>>

Challenges == {"ch1", "ch2"}

WebAuthnInit ==
    /\ sessionStore = [h \in Handles |-> NoSession]
    /\ credStore = {}
    /\ wcall = [w \in Workers |-> Idle]
    /\ wresp = [w \in Workers |-> NoResp]
    /\ regDone = [h \in Handles |-> NoBody]
    /\ regOrder = <<>>
    /\ regFailed = {}

WebAuthnNext ==
    \/ \E w \in Workers, h \in Handles, ok \in BOOLEAN, c \in Challenges :
          BeginRegistration(w, h, ok, c)
    \/ \E w \in Workers, h \in Handles, b \in Bodies : FinishRegistration_Load(w, h, b)
    \/ \E w \in Workers : FinishRegistration(w)
    \/ \E w \in Workers, h \in Handles, ok \in BOOLEAN, c \in Challenges :
          BeginLogin(w, h, ok, c)
    \/ \E w \in Workers, h \in Handles, b \in Bodies : FinishLogin_Load(w, h, b)
    \/ \E w \in Workers : FinishLogin(w)


(***************************************************************************)
(* MFA handlers (package mfa).                                             *)
(***************************************************************************)
Secrets == {"s1", "s2"}
Codes == {"c1", "c2"}
Phones == {"p1"}
MaxWrongRun == 6         \* the count of consecutive wrong SMS codes saturates here

\* getUserIDFromContext: returns ""
getUserIDFromContext == ""

\* the code the TOTP algorithm derives from a secret
TOTPCode(secret) == IF secret = "s1" THEN "c1" ELSE "c2"

\* totp.Validate(code, secret)
TOTPValidate(code, secret) == secret \in Secrets /\ code = TOTPCode(secret)

\* storeTemporarySecret: stores nothing, returns nil
storeTemporarySecret(userID, secret) == tempSecret

\* getTemporarySecret: returns ""
getTemporarySecret(userID) == ""

\* storeVerifiedTOTPSecret: stores nothing, returns nil
storeVerifiedTOTPSecret(userID, secret) == [err |-> FALSE, store |-> mfaMethods]

\* storeSMSVerificationCode: stores nothing, returns nil
storeSMSVerificationCode(userID, phoneNumber, code) == [err |-> FALSE, store |-> smsStore]

\* verifySMSCode: returns false, nil
verifySMSCode(userID, phoneNumber, code) == [err |-> FALSE, valid |-> FALSE]

\* storeVerifiedPhoneNumber: stores nothing, returns nil
storeVerifiedPhoneNumber(userID, phoneNumber) == [err |-> FALSE, store |-> mfaMethods]

\* storeAppLinkChallenge: stores nothing, returns nil
storeAppLinkChallenge(userID, challenge) == [err |-> FALSE]

\* verifyAppLinkResponse: returns false, nil
verifyAppLinkResponse(userID, challenge, signature) == [err |-> FALSE, valid |-> FALSE]

\* a response of the MFA component, with what the call found and left behind:
\* setup is the secret of the TOTP setup in progress at the call ("" for none),
\* priorWrong the wrong SMS codes in a row before it, secretAfter the stored
\* temporary secret when it returned
MfaResp(op, user, code, status, secretAfter) ==
    [op |-> op, user |-> user, code |-> code, status |-> status,
     setup |-> issued.secret, sms |-> issued.sms, priorWrong |-> wrongRun,
     secretAfter |-> secretAfter, methodsBefore |-> mfaMethods]

SetupTOTP(randOK, genOK, secret) ==
    LET userID == getUserIDFromContext
    IN  /\ IF ~randOK \/ ~genOK
             THEN /\ mresp' = MfaResp("SetupTOTP", userID, "", 500, tempSecret[userID])
                  /\ UNCHANGED <<tempSecret, issued>>
             ELSE /\ tempSecret' = storeTemporarySecret(userID, secret)
                  /\ issued' = [issued EXCEPT !.secret = secret]
                  /\ mresp' = MfaResp("SetupTOTP", userID, "", 200, tempSecret'[userID])
        /\ UNCHANGED <<mfaMethods, smsStore, wrongRun, mcall, mrpc, notMfa>>

VerifyTOTP(code) ==
    LET userID == getUserIDFromContext
        secret == getTemporarySecret(userID)
        stored == storeVerifiedTOTPSecret(userID, secret)
        resp(status) == MfaResp("VerifyTOTP", userID, code, status, tempSecret[userID])
    IN  /\ IF secret = ""
             THEN /\ mresp' = resp(400)
                  /\ UNCHANGED <<mfaMethods, issued>>
             ELSE IF ~TOTPValidate(code, secret)
             THEN /\ mresp' = resp(401)
                  /\ UNCHANGED <<mfaMethods, issued>>
             ELSE IF stored.err
             THEN /\ mresp' = resp(500)
                  /\ UNCHANGED <<mfaMethods, issued>>
             ELSE /\ mfaMethods' = stored.store
                  /\ issued' = [issued EXCEPT !.secret = ""]
                  /\ mresp' = resp(200)
        /\ UNCHANGED <<tempSecret, smsStore, wrongRun, mcall, mrpc, notMfa>>

\* generateVerificationCode takes the code from the clock: any code
SendSMS(phoneNumber, code) ==
    LET userID == getUserIDFromContext
        stored == storeSMSVerificationCode(userID, phoneNumber, code)
    IN  /\ IF stored.err
             THEN /\ mresp' = MfaResp("SendSMS", userID, "", 500, tempSecret[userID])
                  /\ UNCHANGED <<smsStore, issued, wrongRun>>
             ELSE /\ smsStore' = stored.store
                  /\ issued' = [issued EXCEPT !.sms = code]
                  /\ wrongRun' = 0
                  /\ mresp' = MfaResp("SendSMS", userID, "", 200, tempSecret[userID])
        /\ UNCHANGED <<tempSecret, mfaMethods, mcall, mrpc, notMfa>>

VerifySMS(phoneNumber, code) ==
    LET userID == getUserIDFromContext
        checked == verifySMSCode(userID, phoneNumber, code)
        stored == storeVerifiedPhoneNumber(userID, phoneNumber)
        resp(status) == MfaResp("VerifySMS", userID, code, status, tempSecret[userID])
    IN  /\ IF checked.err
             THEN /\ mresp' = resp(500)
                  /\ UNCHANGED mfaMethods
             ELSE IF ~checked.valid
             THEN /\ mresp' = resp(401)
                  /\ UNCHANGED mfaMethods
             ELSE IF stored.err
             THEN /\ mresp' = resp(500)
                  /\ UNCHANGED mfaMethods
             ELSE /\ mfaMethods' = stored.store
                  /\ mresp' = resp(200)
        /\ wrongRun' = IF code = issued.sms THEN 0
                       ELSE IF wrongRun < MaxWrongRun THEN wrongRun + 1 ELSE wrongRun
        /\ UNCHANGED <<tempSecret, smsStore, issued, mcall, mrpc, notMfa>>


\* generateChallenge draws the challenge at random: any challenge
\* the encoding of the 32-byte buffer that rand.Read did not fill
ZeroChallenge == "AAAAAAAA"

\* generateChallenge: the error of rand.Read is dropped, the buffer is
\* encoded whether it was filled or not
generateChallenge(randOK, random) == IF randOK THEN random ELSE ZeroChallenge

InitiateAppLink(randOK, random) ==
    LET userID == getUserIDFromContext
        challenge == generateChallenge(randOK, random)
    IN  /\ mresp' = MfaResp("InitiateAppLink", userID, challenge,
                            IF storeAppLinkChallenge(userID, challenge).err THEN 500 ELSE 200,
                            tempSecret[userID])
        /\ UNCHANGED <<tempSecret, mfaMethods, smsStore, issued, wrongRun, mcall, mrpc, notMfa>>

VerifyAppLink(challenge, signature) ==
    LET userID == getUserIDFromContext
        checked == verifyAppLinkResponse(userID, challenge, signature)
    IN  /\ mresp' = MfaResp("VerifyAppLink", userID, challenge,
                            IF checked.err THEN 500 ELSE IF ~checked.valid THEN 401 ELSE 200,
                            tempSecret[userID])
        /\ UNCHANGED <<tempSecret, mfaMethods, smsStore, issued, wrongRun, mcall, mrpc, notMfa>>

MfaUsers == {""}

MfaInit ==
    /\ tempSecret = [u \in MfaUsers |-> ""]
    /\ mfaMethods = {}
    /\ smsStore = [u \in MfaUsers |-> ""]
    /\ issued = [secret |-> "", sms |-> ""]
    /\ wrongRun = 0
    /\ mresp = NoResp
    /\ mcall = [w \in Workers |-> Idle]
    /\ mrpc = [w \in Workers |-> NoResp]

MfaNext ==
    \/ \E r \in BOOLEAN, g \in BOOLEAN, s \in Secrets : SetupTOTP(r, g, s)
    \/ \E c \in Codes : VerifyTOTP(c)
    \/ \E p \in Phones, c \in Codes : SendSMS(p, c)
    \/ \E p \in Phones, c \in Codes : VerifySMS(p, c)
    \/ \E r \in BOOLEAN, c \in Challenges : InitiateAppLink(r, c)
    \/ \E c \in Challenges, sig \in {"sig1", "sig2"} : VerifyAppLink(c, sig)

(***************************************************************************)
(* AuthService (gRPC): the MFA methods.                                    *)
(***************************************************************************)
NilReq == [nil |-> TRUE]
RpcUsers == {"", "u1"}
RpcMethods == {"", "totp"}
RpcCodes == {"", "c1"}
VerifyMFAMethodRequests ==
    {NilReq} \cup [nil : {FALSE}, UserId : RpcUsers, Method : RpcMethods, Code : RpcCodes]

\* a VerifyMFAMethod call arrives at a worker
VerifyMFAMethod_Call(w, req) ==
    /\ mcall[w] = Idle
    /\ LET racing == {v \in Workers \ {w} : mcall[v] # Idle /\ mcall[v].req = req}
       IN  mcall' = [v \in Workers |->
                IF v = w THEN [op |-> "VerifyMFAMethod", req |-> req, raced |-> racing # {}]
                ELSE IF v \in racing THEN [mcall[v] EXCEPT !.raced = TRUE]
                ELSE mcall[v]]
    /\ mrpc' = [mrpc EXCEPT ![w] = NoResp]
    /\ UNCHANGED <<tempSecret, mfaMethods, smsStore, issued, wrongRun, mresp, notMfa>>

\* VerifyMFAMethod as it would be with step 2 of its comment ("Storing verified
\* method") written as a plain insert of a new method per successful call
VerifyMFAMethod_Storing(w) ==
    /\ mcall[w] # Idle
    /\ LET req == mcall[w].req
           resp(code, success) == [op |-> "VerifyMFAMethod", req |-> req, code |-> code,
                                   success |-> success, raced |-> mcall[w].raced]
       IN  IF req = NilReq \/ req.UserId = "" \/ req.Method = "" \/ req.Code = ""
             THEN /\ mrpc' = [mrpc EXCEPT ![w] = resp("InvalidArgument", FALSE)]
                  /\ mfaMethods' = mfaMethods
             ELSE /\ mrpc' = [mrpc EXCEPT ![w] = resp("OK", TRUE)]
                  /\ mfaMethods' = mfaMethods \cup
                        {[id |-> w, user_id |-> req.UserId, type |-> req.Method]}
    /\ mcall' = [mcall EXCEPT ![w] = Idle]
    /\ UNCHANGED <<tempSecret, smsStore, issued, wrongRun, mresp, notMfa>>

\* the body of AuthService.VerifyMFAMethod
VerifyMFAMethod(w) ==
    /\ mcall[w] # Idle
    /\ LET req == mcall[w].req
           resp(code, success) == [op |-> "VerifyMFAMethod", req |-> req, code |-> code,
                                   success |-> success, raced |-> mcall[w].raced]
       IN  IF req = NilReq \/ req.UserId = "" \/ req.Method = "" \/ req.Code = ""
             THEN mrpc' = [mrpc EXCEPT ![w] = resp("InvalidArgument", FALSE)]
             ELSE mrpc' = [mrpc EXCEPT ![w] = resp("OK", TRUE)]
    /\ mcall' = [mcall EXCEPT ![w] = Idle]
    /\ UNCHANGED <<tempSecret, mfaMethods, smsStore, issued, wrongRun, mresp, notMfa>>

MfaRpcNext ==
    \/ \E w \in Workers, req \in VerifyMFAMethodRequests : VerifyMFAMethod_Call(w, req)
    \/ \E w \in Workers : VerifyMFAMethod(w)

(***************************************************************************)
(* AuthService (gRPC): Authenticate and ValidateToken.                     *)
(***************************************************************************)
Emails == {"known@example.com", "unknown@example.com"}
Passwords == {"right", "wrong"}
MfaCodes == {"", "good", "bad"}
AuthenticateRequests ==
    {NilReq} \cup [nil : {FALSE}, Email : Emails, Password : Passwords, MfaCode : MfaCodes]

Sessions == {"sess1", "sess2", "sess3"}
Tokens == {"", "dummy-token", "garbage"}
\* the token Authenticate hands out for a session
TokenOf(session) == "dummy-token"

AuthResp(op, req, code, token, valid) ==
    [op |-> op, req |-> req, code |-> code, token |-> token, valid |-> valid,
     revokedBefore |-> revoked]

Authenticate(req) ==
    /\ IF req = NilReq
         THEN aresp' = AuthResp("Authenticate", req, "InvalidArgument", "", FALSE)
         ELSE aresp' = AuthResp("Authenticate", req, "OK", "dummy-token", FALSE)
    /\ UNCHANGED <<revoked, notAuth>>

ValidateToken(token) ==
    /\ IF token = ""
         THEN aresp' = AuthResp("ValidateToken", NilReq, "InvalidArgument", token, FALSE)
         ELSE aresp' = AuthResp("ValidateToken", NilReq, "OK", token, TRUE)
    /\ UNCHANGED <<revoked, notAuth>>

\* Revoke(session_id): the session record is removed (Storage.DeleteSession)
Revoke(session) ==
    /\ revoked' = revoked \cup {session}
    /\ aresp' = AuthResp("Revoke", NilReq, "OK", TokenOf(session), FALSE)
    /\ UNCHANGED notAuth

AuthInit ==
    /\ revoked = {}
    /\ aresp = NoResp

AuthNext ==
    \/ \E req \in AuthenticateRequests : Authenticate(req)
    \/ \E t \in Tokens : ValidateToken(t)
    \/ \E s \in Sessions : Revoke(s)

(***************************************************************************)
(* AuthService (gRPC): AddMFAMethod, RemoveMFAMethod and GetMFAMethods.    *)
(***************************************************************************)
MethodUsers == {"", "u1", "u2"}
MethodTypes == {"", "totp"}
MethodIds == {"", "m1"}
AddMFAMethodRequests == {NilReq} \cup [nil : {FALSE}, UserId : MethodUsers, Method : MethodTypes]
RemoveMFAMethodRequests ==
    {NilReq} \cup [nil : {FALSE}, UserId : MethodUsers, MethodId : MethodIds]
GetMFAMethodsRequests == {NilReq} \cup [nil : {FALSE}, UserId : MethodUsers]

\* a response: the gRPC code and the response message (out)
RpcResp(op, req, code, out) == [op |-> op, req |-> req, code |-> code, out |-> out]
NoOut == [nil |-> TRUE]

AddMFAMethod(req) ==
    /\ IF req = NilReq \/ req.UserId = "" \/ req.Method = ""
         THEN rresp' = RpcResp("AddMFAMethod", req, "InvalidArgument", NoOut)
         ELSE rresp' = RpcResp("AddMFAMethod", req, "OK",
                          [Type |-> req.Method, Data |-> "dummy-setup-data"])
    /\ prevGet' = NoResp
    /\ UNCHANGED <<challengeIssued, consumed, notRpc>>

RemoveMFAMethod(req) ==
    /\ IF req = NilReq \/ req.UserId = "" \/ req.MethodId = ""
         THEN rresp' = RpcResp("RemoveMFAMethod", req, "InvalidArgument", NoOut)
         ELSE rresp' = RpcResp("RemoveMFAMethod", req, "OK", [Success |-> TRUE])
    /\ prevGet' = NoResp
    /\ UNCHANGED <<challengeIssued, consumed, notRpc>>

\* the response carries the response before it, when no write came between
GetMFAMethods(req) ==
    /\ LET resp(code, out) ==
             [op |-> "GetMFAMethods", req |-> req, code |-> code, out |-> out,
              prev |-> prevGet]
       IN  IF req = NilReq \/ req.UserId = ""
             THEN rresp' = resp("InvalidArgument", NoOut)
             ELSE rresp' = resp("OK",
                      [Methods |-> <<[Id |-> "dummy-method-id", Type |-> "totp",
                                      CreatedAt |-> Unix(now)]>>])
    /\ prevGet' = [req |-> rresp'.req, code |-> rresp'.code, out |-> rresp'.out]
    /\ UNCHANGED <<challengeIssued, consumed, notRpc>>

MethodRpcInit ==
    /\ rresp = NoResp
    /\ prevGet = NoResp

MethodRpcNext ==
    \/ \E req \in AddMFAMethodRequests : AddMFAMethod(req)
    \/ \E req \in RemoveMFAMethodRequests : RemoveMFAMethod(req)
    \/ \E req \in GetMFAMethodsRequests : GetMFAMethods(req)
    \/ Tick

(***************************************************************************)
(* AuthService (gRPC): RegisterPasskey and VerifyPasskey.                  *)
(***************************************************************************)
PasskeyUsers == {"", "u1", "u2"}
\* security.privacy.fingerprint_budget
FingerprintBudget == 100
RegisterPasskeyRequests == {NilReq} \cup [nil : {FALSE}, UserId : PasskeyUsers]
\* a PasskeyCredential: its id and the challenge its response bytes answer
NoCredential == [nil |-> TRUE]
PasskeyCredentials == [Id : {"cred1"}, Challenge : {"dummy-challenge", "forged"}]
VerifyPasskeyRequests ==
    {NilReq} \cup [nil : {FALSE}, UserId : PasskeyUsers,
                   Credential : PasskeyCredentials \cup {NoCredential}]

RegisterPasskey(req) ==
    /\ LET resp(code, out) ==
             [op |-> "RegisterPasskey", req |-> req, code |-> code, out |-> out,
              consumedBefore |-> IF req = NilReq THEN 0 ELSE consumed[req.UserId]]
       IN  IF req = NilReq \/ req.UserId = ""
             THEN /\ rresp' = resp("InvalidArgument", NoOut)
                  /\ UNCHANGED <<challengeIssued, consumed>>
             ELSE /\ rresp' = resp("OK",
                              [Challenge |-> "dummy-challenge", RpId |-> "auth.polyid.io",
                               RpName |-> "PolyID"])
                  /\ challengeIssued' =
                        [challengeIssued EXCEPT ![req.UserId] = "dummy-challenge"]
                  \* counted up to one past the budget
                  /\ consumed' = [consumed EXCEPT ![req.UserId] =
                                    IF @ > FingerprintBudget THEN @ ELSE @ + 1]
    /\ UNCHANGED <<prevGet, notRpc>>

\* the response carries the challenge that was outstanding for the user
VerifyPasskey(req) ==
    /\ LET resp(code, out) ==
             [op |-> "VerifyPasskey", req |-> req, code |-> code, out |-> out,
              issued |-> IF req = NilReq THEN "" ELSE challengeIssued[req.UserId],
              credsBefore |-> credStore]
       IN  IF req = NilReq \/ req.UserId = "" \/ req.Credential = NoCredential
             THEN rresp' = resp("InvalidArgument", NoOut)
             ELSE rresp' = resp("OK", [Success |-> TRUE])
    /\ UNCHANGED <<prevGet, challengeIssued, consumed, notRpc>>

\* security.privacy.budget_reset_interval has passed: a new window begins
WindowRollover ==
    /\ consumed' = [u \in PasskeyUsers |-> 0]
    /\ UNCHANGED <<rresp, prevGet, challengeIssued, notRpc>>

PasskeyRpcInit ==
    /\ challengeIssued = [u \in PasskeyUsers |-> ""]
    /\ consumed = [u \in PasskeyUsers |-> 0]

PasskeyRpcNext ==
    \/ \E req \in RegisterPasskeyRequests : RegisterPasskey(req)
    \/ \E req \in VerifyPasskeyRequests : VerifyPasskey(req)
    \/ WindowRollover

(***************************************************************************)
(* RedisCache.  An entry lives until its Redis expiration; an expiration   *)
(* of 0 means that the key never expires.                                  *)
(***************************************************************************)
MaxCacheTTL == 4         \* the longest expiration handed to the cache, in ticks

CacheSubjects == {"u1", "u2"}
\* fmt.Sprintf("user:%s", id) and the like: the prefix and the id
CacheKey(prefix, id) == <<prefix, id>>
UserKey(id) == CacheKey("user:", id)
CredentialsKey(id) == CacheKey("credentials:", id)
MfaKey(id) == CacheKey("mfa:", id)
CacheTempKey(key) == CacheKey("temp:", key)
CacheKeys ==
    {UserKey(u) : u \in CacheSubjects} \cup {CredentialsKey(u) : u \in CacheSubjects}
        \cup {MfaKey(u) : u \in CacheSubjects} \cup {CacheTempKey(k) : k \in {"k1"}}
CacheTTLs == {0, MaxCacheTTL}
\* the userID strings InvalidateUser is called with: a user's id, or any other
\* string, such as *
InvalidateIDs == CacheSubjects \cup {"*"}

NoEntry == [kind |-> "none"]
NoValue == [json |-> "none"]

\* the key holds a value that Redis has not expired
Live(key) ==
    /\ cache[key] # NoEntry
    /\ cache[key].persist \/ now < cache[key].until

\* client.Keys(pattern): a glob; an id of * matches every id
Matches(pattern, key) ==
    /\ pattern[1] = key[1]
    /\ pattern[2] = "*" \/ pattern[2] = key[2]
ClientKeys(pattern) == {k \in CacheKeys : Live(k) /\ Matches(pattern, k)}

\* json.Marshal / json.Unmarshal of the cached types
MarshalUser(user) == [json |-> "user", id |-> user.ID, email |-> user.Email]
UnmarshalUser(data) == [ID |-> data.id, Email |-> data.email]
MarshalList(kind, list) == [json |-> kind, items |-> list]

\* what a cache call returns; stored is the document the table holds for the
\* subject when the call is made
CacheRet(op, key, code, value) ==
    [op |-> op, key |-> key, code |-> code, value |-> value, at |-> now,
     stored |-> IF key[2] \in UserIDs THEN table[key[2]] ELSE NoDoc]

\* the (string, error) of RedisCache.Get
CacheGetResult(key, getOK) ==
    IF getOK /\ ~Live(key) THEN [code |-> ErrNotFound, value |-> NoValue]
    ELSE IF ~getOK THEN [code |-> ErrInternal, value |-> NoValue]
    ELSE [code |-> OK, value |-> cache[key].value]

\* the keyspace after RedisCache.Set succeeded
CacheAfterSet(key, value, expiration) ==
    [cache EXCEPT ![key] = [value |-> value, persist |-> expiration = 0,
                            until |-> now + expiration]]

CacheGet(key, getOK) ==
    /\ LET r == CacheGetResult(key, getOK)
       IN  cret' = CacheRet("Get", key, r.code, r.value)
    /\ UNCHANGED <<cache, notCache>>

CacheSet(key, value, expiration, setOK) ==
    /\ IF setOK
         THEN /\ cache' = CacheAfterSet(key, value, expiration)
              /\ cret' = CacheRet("Set", key, OK, value)
         ELSE /\ cache' = cache
              /\ cret' = CacheRet("Set", key, ErrInternal, value)
    /\ UNCHANGED notCache

CacheGetUser(userID, getOK) ==
    /\ LET key == UserKey(userID)
           r == CacheGetResult(key, getOK)
       IN  IF r.code # OK
             THEN cret' = CacheRet("GetUser", key, r.code, NoValue)
             ELSE IF r.value.json # "user"
             THEN cret' = CacheRet("GetUser", key, ErrInternal, NoValue)
             ELSE cret' = CacheRet("GetUser", key, OK, UnmarshalUser(r.value))
    /\ UNCHANGED <<cache, notCache>>

\* a typed setter: the value is marshalled and handed to Set
CacheSetTyped(op, key, data, expiration, setOK) ==
    /\ IF setOK
         THEN /\ cache' = CacheAfterSet(key, data, expiration)
              /\ cret' = CacheRet(op, key, OK, data)
         ELSE /\ cache' = cache
              /\ cret' = CacheRet(op, key, ErrInternal, data)
    /\ UNCHANGED notCache

CacheSetUser(user, expiration, setOK) ==
    CacheSetTyped("SetUser", UserKey(user.ID), MarshalUser(user), expiration, setOK)

CacheSetCredentials(userID, credentials, expiration, setOK) ==
    CacheSetTyped("SetCredentials", CredentialsKey(userID),
                  MarshalList("credentials", credentials), expiration, setOK)

CacheSetMFAMethods(userID, methods, expiration, setOK) ==
    CacheSetTyped("SetMFAMethods", MfaKey(userID), MarshalList("mfa", methods),
                  expiration, setOK)

\* the three patterns are handled in turn; failAt is the pattern at which a
\* client call (Keys or Del) fails, 0 when none does
InvalidateUser(userID, failAt) ==
    /\ LET patterns == <<UserKey(userID), CredentialsKey(userID), MfaKey(userID)>>
           done == IF failAt = 0 THEN 1..3 ELSE 1..(failAt - 1)
           deleted == UNION {ClientKeys(patterns[i]) : i \in done}
       IN  /\ cache' = [k \in CacheKeys |-> IF k \in deleted THEN NoEntry ELSE cache[k]]
           /\ cret' = CacheRet("InvalidateUser", UserKey(userID),
                               IF failAt = 0 THEN OK ELSE ErrInternal, NoValue)
    /\ UNCHANGED notCache

CacheInit ==
    /\ cache = [k \in CacheKeys |-> NoEntry]
    /\ cret = [op |-> "none"]

\* the write side: the durable write of a credential and the cache calls
CacheWriteNext ==
    \/ \E c \in Credentials, p \in BOOLEAN : StoreCredential(c, p)
    \/ \E u \in {x \in Users : x.Email = "a@example.com"}, e \in CacheTTLs, ok \in BOOLEAN :
          CacheSetUser(u, e, ok)
    \/ \E u \in CacheSubjects, ok \in BOOLEAN :
          CacheSetCredentials(u, <<"cred1">>, MaxCacheTTL, ok)
    \/ \E u \in CacheSubjects, ok \in BOOLEAN :
          CacheSetMFAMethods(u, <<"m1">>, MaxCacheTTL, ok)
    \/ \E u \in InvalidateIDs, f \in 0..3 : InvalidateUser(u, f)

\* temporary values kept in the cache, as the storage would store them
CacheTempNext ==
    \/ \E v \in TempValues, e \in TTLs, c \in CacheTTLs, ok \in BOOLEAN :
          CacheSet(CacheTempKey("k1"), TempDoc(v, e), c, ok)
    \/ \E ok \in BOOLEAN : CacheGet(CacheTempKey("k1"), ok)
    \/ Tick

\* the read side, for one user: the durable user and its cache entry
CacheReadNext ==
    \/ \E u \in {x \in Users : x.ID = "u1"}, g \in BOOLEAN : CreateUser_Get("w1", u, g)
    \/ \E p \in BOOLEAN : CreateUser("w1", p)
    \/ \E u \in {x \in Users : x.ID = "u1"}, e \in CacheTTLs, ok \in BOOLEAN :
          CacheSetUser(u, e, ok)
    \/ \E ok \in BOOLEAN : CacheGetUser("u1", ok)

(***************************************************************************)
(* The event consumer: consumerGroupHandler.ConsumeClaim over one claim.   *)
(***************************************************************************)
MaxMessages == 3

EventUserCreated == "user.created"
EventUserDeleted == "user.deleted"
EventTypes == {EventUserCreated, EventUserDeleted}

\* the handlers RegisterHandler has registered: one, for user.created
handlers == {EventUserCreated}

\* json.Marshal of an Event, as PublishEvent sends it
MarshalEvent(event) == <<"json", event.Type>>
\* the values a message of the topic can carry: a marshalled event or bytes
\* that are not one
MessageValues == {MarshalEvent([Type |-> t]) : t \in EventTypes} \cup {<<"bytes", "">>}

\* json.Unmarshal(msg.Value, &event)
UnmarshalEvent(value) ==
    IF value[1] = "json" THEN [err |-> FALSE, event |-> [Type |-> value[2]]]
    ELSE [err |-> TRUE, event |-> [Type |-> ""]]

\* the broker appends a message to the claim's partition
Deliver(value) ==
    /\ Len(claim) < MaxMessages
    /\ claim' = Append(claim, [Offset |-> Len(claim), Value |-> value])
    /\ UNCHANGED <<position, marked, outcome, notConsumer>>

\* session.MarkMessage(msg, ""): the group's next offset becomes the one after
\* msg, unless it is already further
MarkMessage(msg) == IF msg.Offset + 1 > marked THEN msg.Offset + 1 ELSE marked

\* what one iteration of the loop does with msg
Handling(msg, handleOK) ==
    LET u == UnmarshalEvent(msg.Value)
    IN  IF u.err THEN "unmarshal"
        ELSE IF u.event.Type \notin handlers THEN "nohandler"
        ELSE IF ~handleOK THEN "failed"
        ELSE "handled"

\* one iteration of the loop over claim.Messages()
ConsumeClaim(handleOK) ==
    /\ position < Len(claim)
    /\ LET msg == claim[position + 1]
           how == Handling(msg, handleOK)
       IN  /\ outcome' = Append(outcome, how)
           /\ marked' = IF how = "handled" THEN MarkMessage(msg) ELSE marked
    /\ position' = position + 1
    /\ UNCHANGED <<claim, notConsumer>>

ConsumerInit ==
    /\ claim = <<>>
    /\ position = 0
    /\ marked = 0
    /\ outcome = <<>>

ConsumerNext ==
    \/ \E v \in MessageValues : Deliver(v)
    \/ \E h \in BOOLEAN : ConsumeClaim(h)

(***************************************************************************)
(* KafkaConsumer.Start: the loop around ConsumerGroup.Consume.             *)
(***************************************************************************)
MaxRounds == 3

\* error values: nil, ctx.Err() of a cancelled context, the wrapped error
NilErr == "nil"
Canceled == "context canceled"
ConsumeFailed == "failed to consume messages"

\* the call of Start: the handler is built and Consume is entered
Start ==
    /\ startPc = "idle"
    /\ startPc' = "consuming"
    /\ entered' = 1
    /\ UNCHANGED <<ctxErr, startRet, notStart>>

\* the loop body as it would be with the second check left out: Start returns
\* ctx.Err() whenever Consume returned without error
Start_Loop_Unchecked(consumeErr) ==
    /\ startPc = "consuming"
    /\ startRet' = IF consumeErr THEN ConsumeFailed ELSE ctxErr
    /\ startPc' = "returned"
    /\ UNCHANGED <<ctxErr, entered, notStart>>

\* Consume has returned, with an error or without: the two checks of the loop
\* body, then the return of Start or the next Consume
Start_Loop(consumeErr) ==
    /\ startPc = "consuming"
    /\ IF consumeErr
         THEN /\ startRet' = ConsumeFailed
              /\ startPc' = "returned"
              /\ entered' = entered
         ELSE IF ctxErr # NilErr
         THEN /\ startRet' = ctxErr
              /\ startPc' = "returned"
              /\ entered' = entered
         ELSE /\ entered < MaxRounds
              /\ entered' = entered + 1
              /\ UNCHANGED <<startPc, startRet>>
    /\ UNCHANGED <<ctxErr, notStart>>

\* the caller cancels the context
Cancel ==
    /\ ctxErr = NilErr
    /\ ctxErr' = Canceled
    /\ UNCHANGED <<startPc, startRet, entered, notStart>>

\* a claim is consumed inside Consume only
ConsumeSession(handleOK) ==
    /\ startPc = "consuming"
    /\ ConsumeClaim(handleOK)

StartInit ==
    /\ startPc = "idle"
    /\ ctxErr = NilErr
    /\ startRet = NilErr
    /\ entered = 0

StartNext ==
    \/ Start
    \/ \E e \in BOOLEAN : Start_Loop(e)
    \/ Cancel
    \/ \E v \in MessageValues : Deliver(v)
    \/ \E h \in BOOLEAN : ConsumeSession(h)

(***************************************************************************)
(* The specifications.                                                     *)
(***************************************************************************)
Init == StorageInit /\ UsersInit /\ WebAuthnInit /\ MfaInit /\ AuthInit /\ MethodRpcInit
        /\ PasskeyRpcInit /\ CacheInit /\ ConsumerInit
        /\ StartInit

\* the other components do not use the storage client
InitNoStorage == Init /\ nilOnMiss

SpecStorage == Init /\ [][StorageNext]_vars
\* the storage adapter with a clock that keeps running; no request is ever
\* bound to arrive
\* one temporary key, stored, read and left to expire
SpecTempValue == Init /\ [][TempValueNext]_vars
SpecStorageFair == SpecStorage /\ WF_vars(Tick)
SpecUsers == Init /\ [][UsersNext]_vars
SpecUserData == Init /\ [][UserDataNext]_vars
SpecWebAuthn == InitNoStorage /\ [][WebAuthnNext]_vars
SpecMfa == InitNoStorage /\ [][MfaNext]_vars
SpecMfaRpc == InitNoStorage /\ [][MfaRpcNext]_vars
SpecAuth == InitNoStorage /\ [][AuthNext]_vars
SpecMethodRpc == InitNoStorage /\ [][MethodRpcNext]_vars
SpecPasskeyRpc == InitNoStorage /\ [][PasskeyRpcNext]_vars
SpecCacheWrite == Init /\ [][CacheWriteNext]_vars
SpecCacheRead == Init /\ [][CacheReadNext]_vars
SpecCacheTemp == InitNoStorage /\ [][CacheTempNext]_vars
SpecConsumer == InitNoStorage /\ [][ConsumerNext]_vars
\* Start with a ConsumerGroup whose Consume returns once its context is cancelled
SpecStart == InitNoStorage /\ [][StartNext]_vars
             /\ WF_vars(ctxErr # NilErr /\ \E e \in BOOLEAN : Start_Loop(e))


(***************************************************************************)
(* The claims.                                                             *)
(***************************************************************************)

\* C1: once FinishRegistration has answered 200 for a session handle, a later
\* FinishRegistration with the same handle and the same (replayed) response
\* does not succeed again.
C1_ReplayIsRejected ==
    \A w \in Workers :
        (wresp[w].op = "FinishRegistration" /\ wresp[w].replay) => wresp[w].status # 200

\* C2: of the FinishRegistration calls that were in flight together on one
\* session handle, at most one completes the ceremony (answers 200).
C2_OneRacerCompletes ==
    \A w1, w2 \in Workers :
        (/\ w1 # w2
         /\ wresp[w1].op = "FinishRegistration" /\ wresp[w2].op = "FinishRegistration"
         /\ wresp[w1].raced /\ wresp[w2].raced
         /\ wresp[w1].handle = wresp[w2].handle)
        => ~(wresp[w1].status = 200 /\ wresp[w2].status = 200)

\* C3: GetTemporaryValue returns a value only while the instant expires_at has
\* not passed: the call is made no later than expires_at seconds.
C3_NeverReturnsExpired ==
    (sret.op = "GetTemporaryValue" /\ sret.code = OK)
        => sret.at <= sret.exp * TicksPerSecond

\* C4: a ValidateToken call made after Revoke completed for the session of the
\* token answers invalid.
C4_RevokedTokenIsInvalid ==
    (aresp.op = "ValidateToken"
        /\ \E s \in aresp.revokedBefore : TokenOf(s) = aresp.token)
        => ~aresp.valid

\* the users of the deployment: who exists, with which password, and who must
\* pass a second factor
KnownEmails == {"known@example.com"}
PrimaryVerified(req) == req.Email \in KnownEmails /\ req.Password = "right"
RequiresMfa(req) == req.Email \in KnownEmails
SecondaryVerified(req) == req.MfaCode = "good"

\* C5: Authenticate returns a token only when the primary factor of the
\* request verified and, for a user who requires MFA, the MFA code verified.
C5_TokenOnlyAfterVerification ==
    (aresp.op = "Authenticate" /\ aresp.token # "")
        => /\ PrimaryVerified(aresp.req)
           /\ RequiresMfa(aresp.req) => SecondaryVerified(aresp.req)

C7_UnknownAndWrongAreUnauthenticated ==
    (aresp.op = "Authenticate" /\ aresp.req # NilReq /\ ~PrimaryVerified(aresp.req))
        => aresp.code = "Unauthenticated"

\* C8: a VerifyTOTP with a wrong code during a setup in progress fails,
\* persists no MFAMethod and leaves the temporary secret of the setup stored.
C8_WrongCodeKeepsSetup ==
    (mresp.op = "VerifyTOTP" /\ mresp.setup # "" /\ mresp.code # TOTPCode(mresp.setup))
        => /\ mresp.status # 200
           /\ mfaMethods = mresp.methodsBefore
           /\ mresp.secretAfter = mresp.setup

\* C9: a VerifyTOTP with the correct code during a setup in progress succeeds,
\* persists the TOTP MFAMethod and deletes the temporary secret.
C9_CorrectCodeCompletesSetup ==
    (mresp.op = "VerifyTOTP" /\ mresp.setup # "" /\ mresp.code = TOTPCode(mresp.setup))
        => /\ mresp.status = 200
           /\ \E m \in mfaMethods : m.type = "totp"
           /\ mresp.secretAfter = ""

\* C10: a VerifySMS that follows 5 wrong codes in a row against the issued
\* code answers ResourceExhausted (HTTP 429), whatever code it carries.
C10_LockedOutAfterFiveWrong ==
    (mresp.op = "VerifySMS" /\ mresp.sms # "" /\ mresp.priorWrong >= 5)
        => mresp.status = 429

\* C11: a GetMFAMethods call that follows a GetMFAMethods call with the
\* identical request, with no write in between, returns the identical result.
C11_RepeatedGetIsIdentical ==
    (rresp.op = "GetMFAMethods" /\ rresp.prev # NoResp /\ rresp.prev.req = rresp.req)
        => /\ rresp.code = rresp.prev.code
           /\ rresp.out = rresp.prev.out

\* C12: a VerifyPasskey whose credential answers a challenge other than the
\* one RegisterPasskey issued for that user fails with Unauthenticated and
\* persists no Credential.
C12_WrongChallengeIsUnauthenticated ==
    (/\ rresp.op = "VerifyPasskey" /\ rresp.issued # ""
     /\ rresp.req.Credential # NoCredential
     /\ rresp.req.Credential.Challenge # rresp.issued)
        => /\ rresp.code = "Unauthenticated"
           /\ credStore = rresp.credsBefore

\* C13: once a newer registration ceremony was begun for the same user, a
\* FinishRegistration call that arrives with the older handle does not succeed.
C13_OlderHandleFails ==
    [][\A w \in Workers :
          (FinishRegistration(w) /\ wcall[w].stale) => wresp'[w].status # 200]_vars

\* C14: once FinishRegistration failed verification on a handle, every later
\* FinishRegistration call with that handle fails, whatever response it
\* carries, until a new ceremony is begun.
C14_FailedHandleStaysFailed ==
    [][\A w \in Workers :
          (FinishRegistration(w) /\ wcall[w].afterFail) => wresp'[w].status # 200]_vars

\* the tokens that are well formed: those of the sessions
WellFormedTokens == {TokenOf(s) : s \in Sessions}

\* C15: ValidateToken answers Unauthenticated for a token that is malformed
\* and for a token whose session was revoked, the same outcome for both.
C15_TokenFailuresAreUnauthenticated ==
    (/\ aresp.op = "ValidateToken" /\ aresp.token # ""
     /\ \/ aresp.token \notin WellFormedTokens
        \/ \E s \in aresp.revokedBefore : TokenOf(s) = aresp.token)
        => aresp.code = "Unauthenticated"

\* who owns which stored MFA method, and which users exist
MethodOwner(methodId) == "u1"
KnownUsers == {"u1"}

\* C16: RemoveMFAMethod for a method that belongs to another user than the
\* requesting one fails with PermissionDenied.
C16_ForeignMethodIsDenied ==
    (/\ rresp.op = "RemoveMFAMethod" /\ rresp.req # NilReq
     /\ rresp.req.UserId # "" /\ rresp.req.MethodId # ""
     /\ MethodOwner(rresp.req.MethodId) # rresp.req.UserId)
        => rresp.code = "PermissionDenied"

\* C17: RegisterPasskey with an empty user_id, or with a user_id that names
\* no existing user, fails with InvalidArgument and issues no challenge.
C17_UnknownUserGetsNoChallenge ==
    (/\ rresp.op = "RegisterPasskey" /\ rresp.req # NilReq
     /\ rresp.req.UserId \notin KnownUsers)
        => /\ rresp.code = "InvalidArgument"
           /\ rresp.out = NoOut

\* C18: a RegisterPasskey attempted for a user whose consumption in the
\* current window has reached the fingerprint budget fails with
\* ResourceExhausted and issues no challenge.
C18_BudgetIsEnforced ==
    (/\ rresp.op = "RegisterPasskey" /\ rresp.req # NilReq /\ rresp.req.UserId # ""
     /\ rresp.consumedBefore >= FingerprintBudget)
        => /\ rresp.code = "ResourceExhausted"
           /\ rresp.out = NoOut

\* C19: no two stored users share an email.
C19_EmailsAreUnique ==
    \A i, j \in UserIDs :
        (i # j /\ table[i] # NoDoc /\ table[j] # NoDoc) => table[i].email # table[j].email

\* C20: the expires_at of a value StoreTemporaryValue has stored is an instant
\* strictly later than the instant of the call that created it.
C20_ExpiresAfterCreation ==
    (sret.op = "StoreTemporaryValue" /\ sret.code = OK)
        => sret.exp * TicksPerSecond > sret.at

\* C21: in every state, every stored credential references a stored user.
C21_CredentialHasUser ==
    \A c \in CredentialIDs :
        table[c] # NoDoc
            => \E u \in UserIDs : table[u] # NoDoc /\ table[u].id = table[c].user_id

\* C22: a GetUser whose storage read ran into the caller's deadline returns
\* the retryable code Unavailable, not Internal.
C22_TimeoutIsUnavailable ==
    (sret.op = "GetUser" /\ sret.fault = "timeout") => sret.code = "UNAVAILABLE"

\* C23: an InitiateAppLink whose challenge generation failed (rand.Read
\* returned an error) does not answer success.
C23_FailedGenerationIsReported ==
    (mresp.op = "InitiateAppLink" /\ mresp.code = ZeroChallenge) => mresp.status # 200

\* C24: once a durable write of a credential has succeeded, the cache holds
\* no entry of the credential's user (user, credentials, MFA methods).
C24_WriteInvalidatesCache ==
    [][\A c \in Credentials :
          StoreCredential(c, TRUE)
              => \A k \in {UserKey(c.UserID), CredentialsKey(c.UserID), MfaKey(c.UserID)} :
                    cache'[k] = NoEntry]_vars

\* C25: a read of a user that the storage holds does not fail because the
\* cache misses or fails: the answer of the storage is returned.
C25_CacheMissFallsThrough ==
    (cret.op = "GetUser" /\ cret.stored # NoDoc) => cret.code = OK

\* C26: two FinishLogin calls that were in flight together with the same
\* assertion (hence the same signature counter, read against the same stored
\* counter) do not both succeed.
C26_OneConcurrentLoginSucceeds ==
    \A w1, w2 \in Workers :
        (/\ w1 # w2
         /\ wresp[w1].op = "FinishLogin" /\ wresp[w2].op = "FinishLogin"
         /\ wresp[w1].raced /\ wresp[w2].raced
         /\ wresp[w1].handle = wresp[w2].handle
         /\ wresp[w1].body = wresp[w2].body)
        => ~(wresp[w1].status = 200 /\ wresp[w2].status = 200)

\* C27: the cache returns a temporary value only while its expires_at has
\* not passed, whatever the expiration of the cache entry.
C27_CacheNeverReturnsExpired ==
    (cret.op = "Get" /\ cret.code = OK) => Unix(cret.at) <= cret.value.expires_at

\* key holds a temporary value whose expires_at has passed
StaleTemp(key) == table[TempKey(key)] # NoDoc /\ Expired(table[TempKey(key)])

\* C28: a temporary value whose TTL has elapsed is eventually gone from the
\* store, whether or not a request for its key ever arrives.
C28_ExpiredValueIsRemoved ==
    \A k \in TempNames : StaleTemp(k) ~> ~StaleTemp(k)


\* C29: when GetUser reports NotFound for an id (the client answers a miss
\* with a nil result and the id has no document), CreateUser for that id does
\* not return AlreadyExists.
C29_CreateAgreesWithGetOnAbsence ==
    \A w \in StorageWorkers :
        (uret[w].op = "CreateUser" /\ uret[w].before = NoDoc /\ nilOnMiss)
            => uret[w].code # ErrAlreadyExists


\* C30: a message that was not handled (handler error, unmarshal error, no
\* registered handler) is never acknowledged: the group's next offset does
\* not lie beyond the offset of any consumed message that was not handled.
C30_UnhandledIsNotCommitted ==
    \A i \in 1..Len(outcome) :
        outcome[i] # "handled" => marked <= claim[i].Offset


\* the cache keys of user id
SubjectKeys(id) == {UserKey(id), CredentialsKey(id), MfaKey(id)}

\* C31: a successful InvalidateUser(u) leaves no entry under the three keys of
\* u and leaves every entry of every other user as it was, whatever string u is.
C31_InvalidateTouchesOnlyItsUser ==
    [][\A u \in InvalidateIDs :
          InvalidateUser(u, 0) =>
              /\ \A k \in SubjectKeys(u) \cap CacheKeys : cache'[k] = NoEntry
              /\ \A v \in CacheSubjects \ {u} :
                    \A k \in SubjectKeys(v) : cache'[k] = cache[k]]_vars


\* the value stored under key with a positive ttl is still before its expiry
BeforeExpiry(key) == lastStore[key] # NoStore

\* C32: a GetTemporaryValue whose client call succeeds, made before the expiry
\* of the value last stored under the key with a positive ttl, returns exactly
\* that value and leaves the table as it was; a successful StoreTemporaryValue
\* on a key that holds a value replaces both the value and the expiry.
C32_StoreGetRoundTrip ==
    [][\A k \in TempNames :
          /\ (BeforeExpiry(k) /\ \E d \in BOOLEAN : GetTemporaryValue(k, TRUE, d))
                => /\ sret'.code = OK
                   /\ sret'.value = lastStore[k].value
                   /\ table' = table
          /\ \A v \in TempValues, e \in TTLs :
                (table[TempKey(k)] # NoDoc /\ StoreTemporaryValue(k, v, e, TRUE))
                    => /\ table'[TempKey(k)].value = v
                       /\ table'[TempKey(k)].expires_at = Unix(now + e)]_vars

\* a value stored with a positive ttl has been read back, some time after the
\* start and before its expiry
C32_ReadBackBeforeExpiry ==
    /\ sret.op = "GetTemporaryValue" /\ sret.code = OK
    /\ sret.at > 0
    /\ sret.at = now
    /\ BeforeExpiry(sret.key)
    /\ sret.value = lastStore[sret.key].value


\* C33: the Finish handlers stop at the first failed step. A FinishRegistration
\* whose response the library rejects answers 400 and reaches neither the
\* credential store nor the success response; a FinishLogin whose assertion the
\* library rejects answers 400 without a token; and either handler answers
\* 200 only for a response the library accepted.
C33_StepsInOrder ==
    [][\A w \in Workers :
          /\ (FinishRegistration(w) /\ ~wcall[w].body.accept)
                => /\ wresp'[w].status = 400
                   /\ credStore' = credStore
                   /\ regDone' = regDone
          /\ (FinishLogin(w) /\ ~wcall[w].body.accept)
                => /\ wresp'[w].status = 400
                   /\ wresp'[w].payload = ""
          /\ ((FinishRegistration(w) \/ FinishLogin(w)) /\ wresp'[w].status = 200)
                => wcall[w].body.accept]_vars

\* a FinishLogin with a rejected assertion has answered 400, and a Finish
\* handler with an accepted response has answered 200
C33_RejectedAndAccepted ==
    /\ \E w \in Workers :
          /\ wresp[w].op = "FinishLogin"
          /\ ~wresp[w].body.accept /\ wresp[w].status = 400
    /\ \E w \in Workers :
          /\ wresp[w].op \in {"FinishLogin", "FinishRegistration"}
          /\ wresp[w].body.accept /\ wresp[w].status = 200


\* C34: while the context is live and Consume returns without error, Start
\* calls Consume again; once Consume reports an error Start returns; once
\* the context is cancelled Start eventually returns; and what Start returns
\* is never nil.
C34_StartLoops ==
    /\ [][\A e \in BOOLEAN :
             Start_Loop(e) =>
                 /\ (~e /\ ctxErr = NilErr)
                       => (startPc' = "consuming" /\ entered' = entered + 1)
                 /\ e => (startPc' = "returned" /\ startRet' = ConsumeFailed)]_vars
    /\ [](startPc = "returned" => startRet # NilErr)
    /\ (startPc = "consuming" /\ ctxErr # NilErr) ~> (startPc = "returned")

\* Start has called Consume more than once and has then returned the
\* context's error
C34_ReturnedAfterCancel ==
    /\ startPc = "returned"
    /\ entered > 1
    /\ ctxErr = Canceled
    /\ startRet = Canceled

====
